---- MODULE Spec2Model ----
(***************************************************************************)
(* The POST /parse-url handler of src/index.js and its response            *)
(* normalization block: the completion text is searched for a '{...}'      *)
(* span, the span is handed to JSON.parse, missing fields are backfilled   *)
(* and the value is sent with res.json.  The older handler of              *)
(* src/unnamed/part_002 parses the whole text and backfills nothing.       *)
(* The handlers of /parse-recipe, /image-proxy and /upload-image follow,   *)
(* one request at a time (Spec), and /parse-url with several requests in   *)
(* flight (SpecConcurrent).  The storage rules of src/unnamed/part_000 are *)
(* evaluated for single storage requests in SpecRules.                     *)
(*                                                                         *)
(* A string is a sequence of symbols.  A symbol is one character           *)
(* ("{", "\"", " ", a digit, ...) or an indivisible run of letters (a      *)
(* word such as "title" or "null"); a word never contains a structural     *)
(* character, so the lexical structure of JSON is kept.                    *)
(***************************************************************************)
EXTENDS Integers, Sequences, FiniteSets, TLC

(***************************************************************************)
(* Bounds                                                                  *)
(***************************************************************************)
\* longest completion text drawn exhaustively over ShortAlphabet
MaxLen == 3
\* longest run of prose symbols put around an embedded object
MaxProse == 1

(***************************************************************************)
(* Symbols                                                                 *)
(***************************************************************************)
LBRACE == "{"
RBRACE == "}"
LBRACKET == "["
RBRACKET == "]"
COLON == ":"
COMMA == ","
QUOTE == "\""
BACKSLASH == "\\"
SPACE == " "

Digits == {"0", "1", "2", "3", "4", "5", "6", "7", "8", "9"}

DigitVal(d) ==
  CASE d = "0" -> 0 [] d = "1" -> 1 [] d = "2" -> 2 [] d = "3" -> 3
    [] d = "4" -> 4 [] d = "5" -> 5 [] d = "6" -> 6 [] d = "7" -> 7
    [] d = "8" -> 8 [] d = "9" -> 9

DigitSym(n) ==
  CASE n = 0 -> "0" [] n = 1 -> "1" [] n = 2 -> "2" [] n = 3 -> "3"
    [] n = 4 -> "4" [] n = 5 -> "5" [] n = 6 -> "6" [] n = 7 -> "7"
    [] n = 8 -> "8" [] n = 9 -> "9"

\* property names and the default title, as strings
title == <<"title">>
ingredientsByProcessingStep == <<"ingredientsByProcessingStep">>
steps == <<"steps">>
tags == <<"tags">>
ImportedRecipe == <<"Imported Recipe">>

(***************************************************************************)
(* JSON values (the values JSON.parse can return)                          *)
(* An object keeps its members in insertion order.  An array is a JS       *)
(* object too: props holds the named properties assigned to it.            *)
(***************************************************************************)
JNull == [type |-> "null"]
JBool(b) == [type |-> "bool", b |-> b]
JNum(n) == [type |-> "num", n |-> n]
JStr(s) == [type |-> "str", s |-> s]
JArr(items) == [type |-> "arr", items |-> items, props |-> <<>>]
JObj(members) == [type |-> "obj", members |-> members]
Member(k, v) == [k |-> k, v |-> v]

\* index of the member named k in a member list, 0 when there is none
RECURSIVE IndexOfKey(_, _, _)
IndexOfKey(members, k, i) ==
  IF i > Len(members) THEN 0
  ELSE IF members[i].k = k THEN i
  ELSE IndexOfKey(members, k, i + 1)

HasKey(members, k) == IndexOfKey(members, k, 1) # 0

\* obj[k] = v on a member list: an existing key keeps its position
SetMember(members, k, v) ==
  LET i == IndexOfKey(members, k, 1)
  IN IF i = 0 THEN Append(members, Member(k, v))
     ELSE [members EXCEPT ![i] = Member(k, v)]

(***************************************************************************)
(* JSON.parse                                                              *)
(***************************************************************************)
Fail == [ok |-> FALSE, val |-> JNull, next |-> 0]
Ok(v, n) == [ok |-> TRUE, val |-> v, next |-> n]

RECURSIVE SkipWS(_, _)
SkipWS(s, i) ==
  IF i <= Len(s) /\ s[i] = SPACE THEN SkipWS(s, i + 1) ELSE i

\* the number of consecutive backslashes that end right before position j,
\* counted from position lo on
RECURSIVE BackslashRun(_, _, _)
BackslashRun(s, lo, j) ==
  IF j - 1 >= lo /\ s[j - 1] = BACKSLASH THEN 1 + BackslashRun(s, lo, j - 1) ELSE 0

\* the character at j follows an unpaired backslash
Escaped(s, lo, j) == BackslashRun(s, lo, j) % 2 = 1

\* The string literal whose first character is at position lo (after the
\* opening quote).  It ends at the first quote that is not escaped; a
\* backslash escapes a quote or a backslash and nothing else; the escaping
\* backslashes are dropped from the value.
ScanString(s, lo) ==
  LET Closes(j) == s[j] = QUOTE /\ ~Escaped(s, lo, j)
  IN IF ~\E j \in lo..Len(s) : Closes(j) THEN Fail
     ELSE LET close == CHOOSE j \in lo..Len(s) :
                         Closes(j) /\ \A k \in lo..(j - 1) : ~Closes(k)
              inside == [i \in 1..(close - lo) |-> lo + i - 1]
              bad == \E j \in lo..(close - 1) :
                       s[j] \notin {QUOTE, BACKSLASH} /\ Escaped(s, lo, j)
              kept == SelectSeq(inside,
                                LAMBDA j : ~(s[j] = BACKSLASH /\ ~Escaped(s, lo, j)))
          IN IF bad THEN Fail
             ELSE Ok(JStr([i \in 1..Len(kept) |-> s[kept[i]]]), close + 1)

\* the digits after the first digit of a number
RECURSIVE ScanDigits(_, _, _)
ScanDigits(s, j, acc) ==
  IF j <= Len(s) /\ s[j] \in Digits
  THEN ScanDigits(s, j + 1, 10 * acc + DigitVal(s[j]))
  ELSE Ok(JNum(acc), j)

ParseNumber(s, i) ==
  IF s[i] = "0" THEN Ok(JNum(0), i + 1)
  ELSE ScanDigits(s, i + 1, DigitVal(s[i]))

RECURSIVE ParseValue(_, _)
RECURSIVE ParseElements(_, _, _)
RECURSIVE ParseMembers(_, _, _)

\* the elements of an array after '[' or ','
ParseElements(s, i, acc) ==
  LET r == ParseValue(s, SkipWS(s, i))
  IN IF ~r.ok THEN Fail
     ELSE LET j == SkipWS(s, r.next)
          IN IF j > Len(s) THEN Fail
             ELSE IF s[j] = COMMA THEN ParseElements(s, j + 1, Append(acc, r.val))
             ELSE IF s[j] = RBRACKET THEN Ok(JArr(Append(acc, r.val)), j + 1)
             ELSE Fail

\* the members of an object after '{' or ','
ParseMembers(s, i, acc) ==
  LET ki == SkipWS(s, i)
  IN IF ki > Len(s) \/ s[ki] # QUOTE THEN Fail
     ELSE LET key == ScanString(s, ki + 1)
          IN IF ~key.ok THEN Fail
             ELSE LET ci == SkipWS(s, key.next)
                  IN IF ci > Len(s) \/ s[ci] # COLON THEN Fail
                     ELSE LET r == ParseValue(s, SkipWS(s, ci + 1))
                          IN IF ~r.ok THEN Fail
                             ELSE LET j == SkipWS(s, r.next)
                                      acc2 == SetMember(acc, key.val.s, r.val)
                                  IN IF j > Len(s) THEN Fail
                                     ELSE IF s[j] = COMMA THEN ParseMembers(s, j + 1, acc2)
                                     ELSE IF s[j] = RBRACE THEN Ok(JObj(acc2), j + 1)
                                     ELSE Fail

ParseValue(s, i) ==
  IF i > Len(s) THEN Fail
  ELSE IF s[i] = "null" THEN Ok(JNull, i + 1)
  ELSE IF s[i] = "true" THEN Ok(JBool(TRUE), i + 1)
  ELSE IF s[i] = "false" THEN Ok(JBool(FALSE), i + 1)
  ELSE IF s[i] \in Digits THEN ParseNumber(s, i)
  ELSE IF s[i] = QUOTE THEN ScanString(s, i + 1)
  ELSE IF s[i] = LBRACKET
       THEN LET j == SkipWS(s, i + 1)
            IN IF j <= Len(s) /\ s[j] = RBRACKET THEN Ok(JArr(<<>>), j + 1)
               ELSE ParseElements(s, i + 1, <<>>)
  ELSE IF s[i] = LBRACE
       THEN LET j == SkipWS(s, i + 1)
            IN IF j <= Len(s) /\ s[j] = RBRACE THEN Ok(JObj(<<>>), j + 1)
               ELSE ParseMembers(s, i + 1, <<>>)
  ELSE Fail

\* JSON.parse(s): ok = FALSE stands for the SyntaxError it throws
JSONParse(s) ==
  LET r == ParseValue(s, SkipWS(s, 1))
  IN IF r.ok /\ SkipWS(s, r.next) = Len(s) + 1 THEN r ELSE Fail

(***************************************************************************)
(* JSON.stringify                                                          *)
(***************************************************************************)
\* a backslash before every quote and every backslash
RECURSIVE Escape(_)
Escape(s) ==
  IF s = <<>> THEN <<>>
  ELSE IF Len(s) = 1
       THEN IF s[1] \in {QUOTE, BACKSLASH} THEN <<BACKSLASH, s[1]>> ELSE s
  ELSE LET half == Len(s) \div 2
       IN Escape(SubSeq(s, 1, half)) \o Escape(SubSeq(s, half + 1, Len(s)))

QuoteString(s) == <<QUOTE>> \o Escape(s) \o <<QUOTE>>

RECURSIVE NumberToString(_)
NumberToString(n) ==
  IF n < 10 THEN <<DigitSym(n)>>
  ELSE NumberToString(n \div 10) \o <<DigitSym(n % 10)>>

RECURSIVE JSONStringify(_)
RECURSIVE StringifyItems(_)
RECURSIVE StringifyMembers(_)

StringifyItems(items) ==
  IF items = <<>> THEN <<>>
  ELSE JSONStringify(Head(items))
       \o (IF Len(items) > 1 THEN <<COMMA>> ELSE <<>>)
       \o StringifyItems(Tail(items))

StringifyMembers(members) ==
  IF members = <<>> THEN <<>>
  ELSE QuoteString(Head(members).k) \o <<COLON>> \o JSONStringify(Head(members).v)
       \o (IF Len(members) > 1 THEN <<COMMA>> ELSE <<>>)
       \o StringifyMembers(Tail(members))

\* the named properties of an array are not serialized
JSONStringify(v) ==
  CASE v.type = "null" -> <<"null">>
    [] v.type = "bool" -> IF v.b THEN <<"true">> ELSE <<"false">>
    [] v.type = "num" -> NumberToString(v.n)
    [] v.type = "str" -> QuoteString(v.s)
    [] v.type = "arr" -> <<LBRACKET>> \o StringifyItems(v.items) \o <<RBRACKET>>
    [] v.type = "obj" -> <<LBRACE>> \o StringifyMembers(v.members) \o <<RBRACE>>

(***************************************************************************)
(* String.prototype.match(/\{[\s\S]*\}/)                                   *)
(***************************************************************************)
\* the first position from i on that holds c, 0 when there is none
FirstIndexOf(s, c, i) ==
  IF \E j \in i..Len(s) : s[j] = c
  THEN CHOOSE j \in i..Len(s) : s[j] = c /\ \A k \in i..(j - 1) : s[k] # c
  ELSE 0

\* the last position up to i that holds c, 0 when there is none
LastIndexOf(s, c, i) ==
  IF \E j \in 1..i : s[j] = c
  THEN CHOOSE j \in 1..i : s[j] = c /\ \A k \in (j + 1)..i : s[k] # c
  ELSE 0

\* a lazy quantifier: up to the first '}' after the first '{'
jsonMatchLazy(result) ==
  LET first == FirstIndexOf(result, LBRACE, 1)
      last == IF first = 0 THEN 0 ELSE FirstIndexOf(result, RBRACE, first + 1)
  IN IF first # 0 /\ last > first
     THEN [found |-> TRUE, text |-> SubSeq(result, first, last)]
     ELSE [found |-> FALSE, text |-> <<>>]

\* the leftmost '{' that has a '}' after it, then greedily up to the last '}'
jsonMatch(result) ==
  LET first == FirstIndexOf(result, LBRACE, 1)
      last == LastIndexOf(result, RBRACE, Len(result))
  IN IF first # 0 /\ last > first
     THEN [found |-> TRUE, text |-> SubSeq(result, first, last)]
     ELSE [found |-> FALSE, text |-> <<>>]

\* no extraction: the whole text
jsonStringOfWholeText(result) == result

\* const jsonString = jsonMatch ? jsonMatch[0] : result
jsonStringOf(result) ==
  IF jsonMatch(result).found THEN jsonMatch(result).text ELSE result

(***************************************************************************)
(* Validate required fields                                                *)
(***************************************************************************)
JUndefined == [type |-> "undefined"]

\* v[k] for a value that is neither null nor undefined
GetProp(v, k) ==
  LET members == IF v.type = "obj" THEN v.members
                 ELSE IF v.type = "arr" THEN v.props
                 ELSE <<>>
      i == IndexOfKey(members, k, 1)
  IN IF i = 0 THEN JUndefined ELSE members[i].v

\* a test for null and undefined only
FalsyNullish(x) == x.type \in {"undefined", "null"}

\* a test that also takes every array for empty
FalsyOrArray(x) ==
  \/ x.type \in {"undefined", "null", "arr"}
  \/ x.type = "bool" /\ ~x.b
  \/ x.type = "num" /\ x.n = 0
  \/ x.type = "str" /\ x.s = <<>>

\* !x is true
Falsy(x) ==
  \/ x.type \in {"undefined", "null"}
  \/ x.type = "bool" /\ ~x.b
  \/ x.type = "num" /\ x.n = 0
  \/ x.type = "str" /\ x.s = <<>>

\* if (!parsedResult[k]) parsedResult[k] = def;  in an ES module (strict
\* mode): reading a property of null and assigning a property of a
\* primitive both throw a TypeError
BackfillField(st, k, def) ==
  IF st.threw THEN st
  ELSE IF st.val.type = "null" THEN [st EXCEPT !.threw = TRUE]
  ELSE IF ~Falsy(GetProp(st.val, k)) THEN st
  ELSE IF st.val.type = "obj"
       THEN [st EXCEPT !.val.members = SetMember(@, k, def)]
  ELSE IF st.val.type = "arr"
       THEN [st EXCEPT !.val.props = SetMember(@, k, def)]
  ELSE [st EXCEPT !.threw = TRUE]

\* steps assigned without its test
ValidateRequiredFieldsStepsAlways(parsed, result) ==
  LET s0 == [val |-> parsed, threw |-> FALSE]
      s1 == BackfillField(s0, title, JStr(ImportedRecipe))
      s2 == BackfillField(s1, ingredientsByProcessingStep, JArr(<<>>))
      s3 == BackfillField([s2 EXCEPT !.val = IF @.type = "obj"
                                             THEN [@ EXCEPT !.members = SetMember(@, steps, JNull)]
                                             ELSE @],
                          steps, JStr(result))
      s4 == BackfillField(s3, tags, JArr(<<>>))
  IN s4

ValidateRequiredFields(parsed, result) ==
  LET s0 == [val |-> parsed, threw |-> FALSE]
      s1 == BackfillField(s0, title, JStr(ImportedRecipe))
      s2 == BackfillField(s1, ingredientsByProcessingStep, JArr(<<>>))
      s3 == BackfillField(s2, steps, JStr(result))
      s4 == BackfillField(s3, tags, JArr(<<>>))
  IN s4

\* the record built in the catch block
FallbackRecord(result) ==
  JObj(<<Member(title, JStr(ImportedRecipe)),
         Member(steps, JStr(result)),
         Member(ingredientsByProcessingStep, JArr(<<>>)),
         Member(tags, JArr(<<>>))>>)

\* the normalization block of index.js as a function of the completion text
normalize(result) ==
  LET r == JSONParse(jsonStringOf(result))
      st == ValidateRequiredFields(r.val, result)
  IN IF r.ok /\ ~st.threw THEN st.val ELSE FallbackRecord(result)

(***************************************************************************)
(* Completion texts the completion service may return                      *)
(***************************************************************************)
ShortAlphabet ==
  {LBRACE, RBRACE, LBRACKET, RBRACKET, QUOTE, BACKSLASH, SPACE, "a", "1", "null"}

\* '[1,2]', '123', '"abc"', ' [ 1 , "a" ] ', '0', 'true', '{"title":1}'
NamedTexts ==
  {<<LBRACKET, "1", COMMA, "2", RBRACKET>>,
   <<"1", "2", "3">>,
   <<QUOTE, "abc", QUOTE>>,
   <<SPACE, LBRACKET, SPACE, "1", SPACE, COMMA, SPACE, QUOTE, "a", QUOTE, SPACE, RBRACKET, SPACE>>,
   <<"0">>,
   <<"true">>,
   <<LBRACE, QUOTE, "title", QUOTE, COLON, "1", RBRACE>>}

ProseAlphabet == {"a", SPACE}

SeqsUpTo(S, n) == UNION {[1..k -> S] : k \in 0..n}

Group ==
  JObj(<<Member(<<"name">>, JStr(<<"G">>)),
         Member(<<"items">>,
                JArr(<<JObj(<<Member(<<"quantity">>, JStr(<<"1">>)),
                              Member(<<"name">>, JStr(<<"salt">>))>>)>>))>>)

\* JUndefined stands for a field that is left out of the object
TitleValues ==
  {JUndefined, JNull, JStr(<<>>), JStr(<<"T">>), JStr(<<RBRACE, QUOTE>>), JNum(1)}
StepsValues ==
  {JUndefined, JNull, JStr(<<>>), JStr(<<"S">>), JStr(<<BACKSLASH, LBRACE>>), JNum(0)}
\* ingredientsByProcessingStep and tags, drawn together
IngredientsAndTags ==
  {<<JUndefined, JUndefined>>,
   <<JNull, JNull>>,
   <<JArr(<<>>), JArr(<<>>)>>,
   <<JArr(<<Group>>), JArr(<<JStr(<<"x">>)>>)>>,
   <<JArr(<<Group, JObj(<<>>), Group>>), JArr(<<JStr(<<"x">>), JStr(<<"y">>), JStr(<<"x">>)>>)>>}

DropUndefined(members) == SelectSeq(members, LAMBDA m : m.v.type # "undefined")

Reverse(s) == [i \in 1..Len(s) |-> s[Len(s) + 1 - i]]

ObjectOf(t, i, s, g, reversed) ==
  LET members == DropUndefined(<<Member(title, t), Member(ingredientsByProcessingStep, i),
                                 Member(steps, s), Member(tags, g)>>)
  IN JObj(IF reversed THEN Reverse(members) ELSE members)

Objects ==
  {ObjectOf(t, ig[1], s, ig[2], r) : t \in TitleValues, ig \in IngredientsAndTags,
                                     s \in StepsValues, r \in BOOLEAN}

\* objects small enough to put two of them into one completion
SmallObjects ==
  {JObj(<<>>), JObj(<<Member(title, JStr(<<"T">>)), Member(steps, JStr(<<"S">>))>>)}

NoValue == JUndefined

\* kind "text": the text itself; "embedded": pre, one object, post;
\* "two": pre, an object, mid, a second object, post
Origins ==
  {[kind |-> "text", pre |-> t, val |-> NoValue, mid |-> <<>>, val2 |-> NoValue, post |-> <<>>] :
     t \in SeqsUpTo(ShortAlphabet, MaxLen) \cup NamedTexts}
  \cup
  {[kind |-> "embedded", pre |-> a, val |-> v, mid |-> <<>>, val2 |-> NoValue, post |-> b] :
     a \in SeqsUpTo(ProseAlphabet, MaxProse), v \in Objects, b \in SeqsUpTo(ProseAlphabet, MaxProse)}
  \cup
  {[kind |-> "two", pre |-> a, val |-> v, mid |-> m, val2 |-> w, post |-> b] :
     a \in SeqsUpTo(ProseAlphabet, MaxProse), v \in SmallObjects,
     m \in SeqsUpTo(ProseAlphabet, MaxProse), w \in SmallObjects,
     b \in SeqsUpTo(ProseAlphabet, MaxProse)}

\* completion.choices[0].message.content
ContentOf(o) ==
  CASE o.kind = "text" -> o.pre
    [] o.kind = "embedded" -> o.pre \o JSONStringify(o.val) \o o.post
    [] o.kind = "two" ->
         o.pre \o JSONStringify(o.val) \o o.mid \o JSONStringify(o.val2) \o o.post

(***************************************************************************)
(* The files that register handlers.  "index.js" is lines 1-399 of         *)
(* src/index.js and "index.js:400" the second server the file holds from   *)
(* line 400 on; "part_002" is the older server of src/unnamed/part_002;     *)
(* "index-simple.js" is src/index-simple.js, of which /parse-recipe is      *)
(* modelled (its /upload-image is the handler of upload-endpoint.js).       *)
(***************************************************************************)
Handlers ==
  {"index.js", "part_002", "index.js:400", "image-proxy-new.js", "upload-endpoint.js",
   "index-simple.js"}

\* process.env.API_SECRET_KEY: not set, set to the empty string, set to a secret
EnvValues == {"undefined", "", "secret"}

(***************************************************************************)
(* POST /parse-url                                                         *)
(***************************************************************************)
VARIABLES
  handler,       \* the file that serves the request: "index.js" or "part_002"
  API_SECRET_KEY, \* process.env.API_SECRET_KEY
  pc,            \* position of the handler
  req,           \* the request: x-api-key header and url of the body
  origin,        \* how the completion service put its answer together
  result,        \* completion.choices[0].message.content
  jsonString,    \* the text handed to JSON.parse
  parsedResult,  \* let parsedResult
  err,           \* the exception thrown last, "none" when there is none
  caughtBy,      \* the catch block that took it: "none", "inner", "outer"
  res,           \* the response: status 0 while nothing has been sent
  calls,         \* the collaborator operations invoked so far, in order
  inflight       \* the requests of the concurrent specification

vars == <<handler, API_SECRET_KEY, pc, req, origin, result, jsonString, parsedResult, err, caughtBy, res,
          calls, inflight>>

\* one collaborator operation: its name and the path or text it is given
Call(op, arg) == [op |-> op, arg |-> arg]

NoRequest == [route |-> "none", apiKey |-> "none", url |-> "none"]
NoOrigin == [kind |-> "none", pre |-> <<>>, val |-> NoValue, mid |-> <<>>, val2 |-> NoValue, post |-> <<>>]
NoResponse == [status |-> 0, body |-> <<>>]

ErrorBody(msg) == JSONStringify(JObj(<<Member(<<"error">>, JStr(msg))>>))

\* a catch block that takes the SyntaxError of JSON.parse only
InnerCatchesSyntaxErrorOnly(e) == e = "SyntaxError"

\* catch (e) of the inner try: it has no filter
InnerCatches(e) == TRUE

\* Every server but index-simple.js falls back to a built-in key
\* (process.env.API_SECRET_KEY || 'chef-choice-mobile-app-2025'), so its
\* expected key is never empty: the request's apiKey "expected" stands for it.
Init ==
  /\ handler \in Handlers
  /\ API_SECRET_KEY \in (IF handler = "index-simple.js" THEN EnvValues ELSE {"secret"})
  /\ pc = "idle"
  /\ req = NoRequest
  /\ origin = NoOrigin
  /\ result = <<>>
  /\ jsonString = <<>>
  /\ parsedResult = JUndefined
  /\ err = "none"
  /\ caughtBy = "none"
  /\ res = NoResponse
  /\ calls = <<>>
  /\ inflight = <<>>

\* a request arrives
Receive ==
  /\ pc = "idle"
  /\ handler \in {"index.js", "part_002"}
  /\ \E k \in {"absent", "wrong", "expected"},
        u \in {"absent", "not_string", "malformed", "valid"} :
       req' = [route |-> "/parse-url", apiKey |-> k, url |-> u]
  /\ pc' = "auth"
  /\ UNCHANGED <<handler, API_SECRET_KEY, origin, result, jsonString, parsedResult, err, caughtBy, res, calls, inflight>>

\* if (apiKey !== expectedApiKey) return res.status(401)
CheckApiKey ==
  /\ pc = "auth"
  /\ IF req.apiKey # "expected"
     THEN /\ res' = [status |-> 401, body |-> ErrorBody(<<"Unauthorized">>)]
          /\ pc' = "done"
     ELSE /\ pc' = "validate_request"
          /\ UNCHANGED res
  /\ UNCHANGED <<handler, API_SECRET_KEY, req, origin, result, jsonString, parsedResult, err, caughtBy, calls, inflight>>

\* if (!url || typeof url !== 'string') 400;  new URL(url) throws: 400
ValidateRequest ==
  /\ pc = "validate_request"
  /\ IF req.url \in {"absent", "not_string"}
     THEN /\ res' = [status |-> 400, body |-> ErrorBody(<<"Invalid request: url is required">>)]
          /\ pc' = "done"
     ELSE IF req.url = "malformed"
     THEN /\ res' = [status |-> 400, body |-> ErrorBody(<<"Invalid URL format">>)]
          /\ pc' = "done"
     ELSE /\ pc' = "fetch"
          /\ UNCHANGED res
  /\ UNCHANGED <<handler, API_SECRET_KEY, req, origin, result, jsonString, parsedResult, err, caughtBy, calls, inflight>>

\* await fetch(url); if (!response.ok) throw; await response.text()
FetchPage ==
  /\ pc = "fetch"
  /\ \E outcome \in {"ok", "not_ok", "network_error"} :
       IF outcome = "ok"
       THEN pc' = "completion" /\ UNCHANGED err
       ELSE pc' = "outer_catch" /\ err' = outcome
  /\ calls' = Append(calls, Call("fetch", <<>>))
  /\ UNCHANGED <<handler, API_SECRET_KEY, req, origin, result, jsonString, parsedResult, caughtBy, res, inflight>>

\* await openai.chat.completions.create(...); const result = ...content
AwaitCompletion ==
  /\ pc = "completion"
  /\ \/ \E o \in Origins :
          /\ origin' = o
          /\ result' = ContentOf(o)
          /\ pc' = IF handler = "index.js" THEN "extract" ELSE "parse_legacy"
          /\ UNCHANGED err
     \/ /\ pc' = "outer_catch"
        /\ err' = "completion_error"
        /\ UNCHANGED <<handler, API_SECRET_KEY, origin, result>>
  /\ calls' = Append(calls, Call("completion", <<>>))
  /\ UNCHANGED <<handler, API_SECRET_KEY, req, jsonString, parsedResult, caughtBy, res, inflight>>

\* const jsonMatch = result.match(...); const jsonString = ...
ExtractJson ==
  /\ pc = "extract"
  /\ jsonString' = jsonStringOf(result)
  /\ pc' = "parse"
  /\ UNCHANGED <<handler, API_SECRET_KEY, req, origin, result, parsedResult, err, caughtBy, res, calls, inflight>>

\* where a thrown exception e of the inner try block goes
ThrowInner(e) ==
  /\ err' = e
  /\ pc' = IF InnerCatches(e) THEN "inner_catch" ELSE "outer_catch"

\* parsedResult = JSON.parse(jsonString)
ParseJson ==
  /\ pc = "parse"
  /\ LET r == JSONParse(jsonString)
     IN IF r.ok
        THEN /\ parsedResult' = r.val
             /\ pc' = "validate_fields"
             /\ UNCHANGED err
        ELSE /\ ThrowInner("SyntaxError")
             /\ UNCHANGED parsedResult
  /\ UNCHANGED <<handler, API_SECRET_KEY, req, origin, result, jsonString, caughtBy, res, calls, inflight>>

\* part_002: parsedResult = JSON.parse(result), no extraction and no backfill
ParseJsonLegacy ==
  /\ pc = "parse_legacy"
  /\ jsonString' = result
  /\ LET r == JSONParse(result)
     IN IF r.ok
        THEN /\ parsedResult' = r.val
             /\ pc' = "respond"
             /\ UNCHANGED err
        ELSE /\ ThrowInner("SyntaxError")
             /\ UNCHANGED parsedResult
  /\ UNCHANGED <<handler, API_SECRET_KEY, req, origin, result, caughtBy, res, calls, inflight>>

\* the four if (!parsedResult.x) parsedResult.x = default statements
ValidateFields ==
  /\ pc = "validate_fields"
  /\ LET st == ValidateRequiredFields(parsedResult, result)
     IN /\ parsedResult' = st.val
        /\ IF st.threw
           THEN ThrowInner("TypeError")
           ELSE pc' = "respond" /\ UNCHANGED err
  /\ UNCHANGED <<handler, API_SECRET_KEY, req, origin, result, jsonString, caughtBy, res, calls, inflight>>

\* catch (e) { parsedResult = { title: 'Imported Recipe', steps: result, ... } }
InnerCatch ==
  /\ pc = "inner_catch"
  /\ parsedResult' = FallbackRecord(result)
  /\ caughtBy' = "inner"
  /\ pc' = "respond"
  /\ UNCHANGED <<handler, API_SECRET_KEY, req, origin, result, jsonString, err, res, calls, inflight>>

\* res.json(parsedResult)
Respond ==
  /\ pc = "respond"
  /\ res' = [status |-> 200, body |-> JSONStringify(parsedResult)]
  /\ pc' = "done"
  /\ UNCHANGED <<handler, API_SECRET_KEY, req, origin, result, jsonString, parsedResult, err, caughtBy, calls, inflight>>

ErrorMessage(e) ==
  CASE e = "not_ok" -> <<"HTTP status">>
    [] e = "network_error" -> <<"network error">>
    [] e = "completion_error" -> <<"completion error">>
    [] OTHER -> <<e>>

\* catch (err) { res.status(500).json({ error: '...' + err.message }) }
OuterCatch ==
  /\ pc = "outer_catch"
  /\ res' = [status |-> 500,
             body |-> ErrorBody(<<"Failed to fetch or parse recipe from URL: ">> \o ErrorMessage(err))]
  /\ caughtBy' = "outer"
  /\ pc' = "done"
  /\ UNCHANGED <<handler, API_SECRET_KEY, req, origin, result, jsonString, parsedResult, err, calls, inflight>>

(***************************************************************************)
(* POST /parse-recipe                                                      *)
(***************************************************************************)
\* the completions drawn for /parse-recipe
RecipeOrigins ==
  {[NoOrigin EXCEPT !.kind = "text", !.pre = t] :
     t \in NamedTexts \cup {<<>>, <<"a">>, <<"null">>}}
  \cup
  {[NoOrigin EXCEPT !.kind = "embedded", !.pre = a, !.val = v] :
     a \in SeqsUpTo(ProseAlphabet, MaxProse), v \in SmallObjects}

\* the body of res.json({ result: text })
ResultBody(text) == JSONStringify(JObj(<<Member(<<"result">>, JStr(text))>>))

\* a request arrives
\* the limits of text.length: 15000 in index.js, 5000 in the older servers
MaxTextLength == 15000
LegacyMaxTextLength == 5000
TextLimit(h) == IF h = "index.js" THEN MaxTextLength ELSE LegacyMaxTextLength

\* text.length of the requests: the empty text and both sides of each limit
TextLengths ==
  {0, 1, LegacyMaxTextLength, LegacyMaxTextLength + 1, MaxTextLength, MaxTextLength + 1}

\* a limit that refuses the longest text allowed
TextTooLongInclusive(length, limit) ==
  length >= limit

\* text.length > 15000
TextTooLong(length, limit) ==
  length > limit

\* !text || typeof text !== 'string', and the limit: the request is refused
TextRefused(h, r) ==
  \/ r.text \in {"absent", "not_string"}
  \/ r.length = 0
  \/ TextTooLong(r.length, TextLimit(h))

ReceiveParseRecipe ==
  /\ pc = "idle"
  /\ handler \in {"index.js", "part_002"}
  /\ \E k \in {"absent", "wrong", "expected"},
        t \in {"absent", "not_string", "string"} :
       \E n \in (IF t = "string" THEN TextLengths ELSE {0}) :
         req' = [route |-> "/parse-recipe", apiKey |-> k, text |-> t, length |-> n]
  /\ pc' = "recipe_auth"
  /\ UNCHANGED <<handler, API_SECRET_KEY, origin, result, jsonString, parsedResult, err, caughtBy, res,
                 calls, inflight>>

\* if (apiKey !== expectedApiKey) return res.status(401)
RecipeCheckApiKey ==
  /\ pc = "recipe_auth"
  /\ IF req.apiKey # "expected"
     THEN /\ res' = [status |-> 401, body |-> ErrorBody(<<"Unauthorized">>)]
          /\ pc' = "done"
     ELSE /\ pc' = "recipe_validate"
          /\ UNCHANGED res
  /\ UNCHANGED <<handler, API_SECRET_KEY, req, origin, result, jsonString, parsedResult, err, caughtBy,
                 calls, inflight>>

\* index-simple.js: the x-api-key header is absent ("undefined"), empty, or
\* a string
ReceiveParseRecipeSimple ==
  /\ pc = "idle"
  /\ handler = "index-simple.js"
  /\ \E k \in {"undefined", "", "wrong", "secret"},
        t \in {"absent", "not_string", "string"} :
       \E n \in (IF t = "string" THEN TextLengths ELSE {0}) :
         req' = [route |-> "/parse-recipe", apiKey |-> k, text |-> t, length |-> n]
  /\ pc' = "recipe_auth_simple"
  /\ UNCHANGED <<handler, API_SECRET_KEY, origin, result, jsonString, parsedResult, err,
                 caughtBy, res, calls, inflight>>

\* a test of the header against the secret alone
UnauthorizedMismatchOnly(expectedApiKey, apiKey) ==
  apiKey # expectedApiKey

\* !expectedApiKey || apiKey !== expectedApiKey
Unauthorized(expectedApiKey, apiKey) ==
  \/ expectedApiKey \in {"undefined", ""}
  \/ apiKey # expectedApiKey

\* index-simple.js 36-43: const expectedApiKey = process.env.API_SECRET_KEY;
\* if (!expectedApiKey || apiKey !== expectedApiKey) return res.status(401)
RecipeCheckApiKeySimple ==
  /\ pc = "recipe_auth_simple"
  /\ IF Unauthorized(API_SECRET_KEY, req.apiKey)
     THEN /\ res' = [status |-> 401, body |-> ErrorBody(<<"Unauthorized">>)]
          /\ pc' = "done"
     ELSE /\ pc' = "recipe_validate"
          /\ UNCHANGED res
  /\ UNCHANGED <<handler, API_SECRET_KEY, req, origin, result, jsonString, parsedResult, err,
                 caughtBy, calls, inflight>>

\* if (!text || typeof text !== 'string') 400;  if (text.length > limit) 400
RecipeValidate ==
  /\ pc = "recipe_validate"
  /\ IF req.text \in {"absent", "not_string"} \/ req.length = 0
     THEN /\ res' = [status |-> 400, body |-> ErrorBody(<<"Invalid request: text is required">>)]
          /\ pc' = "done"
     ELSE IF TextTooLong(req.length, TextLimit(handler))
     THEN /\ res' = [status |-> 400, body |-> ErrorBody(<<"Text too long.">>)]
          /\ pc' = "done"
     ELSE /\ pc' = "recipe_completion"
          /\ UNCHANGED res
  /\ UNCHANGED <<handler, API_SECRET_KEY, req, origin, result, jsonString, parsedResult, err, caughtBy,
                 calls, inflight>>

\* await openai.chat.completions.create(...); const result = ...content
RecipeAwaitCompletion ==
  /\ pc = "recipe_completion"
  /\ \/ \E o \in RecipeOrigins :
          /\ origin' = o
          /\ result' = ContentOf(o)
          /\ pc' = IF handler = "index.js" THEN "recipe_normalize" ELSE "recipe_respond_raw"
          /\ UNCHANGED err
     \/ /\ pc' = "recipe_outer_catch"
        /\ err' = "completion_error"
        /\ UNCHANGED <<origin, result>>
  /\ calls' = Append(calls, Call("completion", <<>>))
  /\ UNCHANGED <<handler, API_SECRET_KEY, req, jsonString, parsedResult, caughtBy, res, inflight>>

\* the inner try block: match, JSON.parse, the four field checks and
\* res.json({ result: JSON.stringify(parsedResult) });  its catch (e) block
\* answers res.json({ result })
RecipeNormalize ==
  /\ pc = "recipe_normalize"
  /\ LET parsed == JSONParse(jsonStringOf(result))
         st == ValidateRequiredFields(parsed.val, result)
         thrown == IF ~parsed.ok THEN "SyntaxError"
                   ELSE IF st.threw THEN "TypeError" ELSE "none"
     IN /\ jsonString' = jsonStringOf(result)
        /\ err' = thrown
        /\ IF thrown = "none"
           THEN /\ parsedResult' = st.val
                /\ res' = [status |-> 200, body |-> ResultBody(JSONStringify(st.val))]
                /\ UNCHANGED caughtBy
           ELSE /\ parsedResult' = IF parsed.ok THEN st.val ELSE parsedResult
                /\ res' = [status |-> 200, body |-> ResultBody(result)]
                /\ caughtBy' = "inner"
  /\ pc' = "done"
  /\ UNCHANGED <<handler, API_SECRET_KEY, req, origin, result, calls, inflight>>

\* part_002 and index-simple.js: res.json({ result })
RecipeRespondRaw ==
  /\ pc = "recipe_respond_raw"
  /\ res' = [status |-> 200, body |-> ResultBody(result)]
  /\ pc' = "done"
  /\ UNCHANGED <<handler, API_SECRET_KEY, req, origin, result, jsonString, parsedResult, err, caughtBy,
                 calls, inflight>>

\* catch (err) { res.status(500).json({ error: 'OpenAI API error' }) }
RecipeOuterCatch ==
  /\ pc = "recipe_outer_catch"
  /\ res' = [status |-> 500, body |-> ErrorBody(<<"OpenAI API error">>)]
  /\ caughtBy' = "outer"
  /\ pc' = "done"
  /\ UNCHANGED <<handler, API_SECRET_KEY, req, origin, result, jsonString, parsedResult, err,
                 calls, inflight>>

(***************************************************************************)
(* POST /image-proxy: the Admin SDK handler of index.js 225-330, the       *)
(* token-verifying handler of index.js 638-759 and the REST handler of     *)
(* image-proxy-new.js                                                      *)
(***************************************************************************)
SLASH == "/"

\* the uid a valid token decodes to
TokenUid == <<"u1">>

\* 'recipes/u1/a.jpg', 'recipes/u2/a.jpg', 'public/a.jpg',
\* 'recipes/u2/recipes/u1/a.jpg'
StoragePaths ==
  {<<"recipes", SLASH, "u1", SLASH, "a.jpg">>,
   <<"recipes", SLASH, "u2", SLASH, "a.jpg">>,
   <<"public", SLASH, "a.jpg">>,
   <<"recipes", SLASH, "u2", SLASH, "recipes", SLASH, "u1", SLASH, "a.jpg">>}

\* s.includes(needle)
Includes(s, needle) ==
  \E i \in 1..(Len(s) + 1 - Len(needle)) : SubSeq(s, i, i + Len(needle) - 1) = needle

\* storagePath.includes('recipes/') && !storagePath.includes(`recipes/${uid}/`)
AccessDenied(storagePath, uid) ==
  /\ Includes(storagePath, <<"recipes", SLASH>>)
  /\ ~Includes(storagePath, <<"recipes", SLASH>> \o uid \o <<SLASH>>)

\* a match that ignores where in the path 'recipes/' stands
RecipesMatchAnywhere(path) ==
  Includes(path, <<"recipes", SLASH>>)

\* match /recipes/{allPaths=**}
RecipesMatch(path) ==
  /\ Len(path) >= 2
  /\ SubSeq(path, 1, 2) = <<"recipes", SLASH>>

\* request.auth != null: the request carries a token the service accepts
RequestAuthNotNull(authToken) ==
  authToken = "valid"

\* the storage rules: the allow statements of the blocks that match are
\* or-ed; match /{allPaths=**} matches every path and allows nothing
RulesDecision(method, path, authToken) ==
  \/ /\ RecipesMatch(path)
     /\ \/ method = "read" /\ RequestAuthNotNull(authToken)
        \/ method = "write" /\ RequestAuthNotNull(authToken)
  \/ /\ method \in {"read", "write"}
     /\ FALSE

\* the rules for the GET of the REST /image-proxy handler
RulesAllow(path, authToken) ==
  RulesDecision("read", path, authToken)

\* a response that never sets the header guard
HeadersSentNever(r) == FALSE

\* res.headersSent
HeadersSent(r) == r.status # 0

\* the handlers that app.post('/image-proxy', ...) registers in each file, in
\* the order of registration: the Admin-SDK handler without token
\* verification, the one that verifies the token, the REST handler
ImageProxyRegistrations(h) ==
  CASE h = "index.js" -> <<"admin">>
    [] h = "index.js:400" -> <<"verify", "rest">>
    [] h = "image-proxy-new.js" -> <<"rest">>
    [] OTHER -> <<>>

\* Express runs the first registered handler that matches; each handler is
\* async (req, res) => ..., without next, so no later one is ever called
ImageProxyHandler(h) ==
  ImageProxyRegistrations(h)[1]

\* a request arrives; '' stands for an absent storagePath
ReceiveImageProxy ==
  /\ pc = "idle"
  /\ ImageProxyRegistrations(handler) # <<>>
  /\ \E k \in {"absent", "wrong", "expected"},
        p \in {<<>>} \cup StoragePaths,
        t \in {"absent", "not_string", "invalid", "valid"} :
       req' = [route |-> "/image-proxy", apiKey |-> k, storagePath |-> p, authToken |-> t]
  /\ pc' = "proxy_auth"
  /\ UNCHANGED <<handler, API_SECRET_KEY, origin, result, jsonString, parsedResult, err, caughtBy, res,
                 calls, inflight>>

\* if (apiKey !== expectedApiKey) return res.status(401)
ProxyCheckApiKey ==
  /\ pc = "proxy_auth"
  /\ IF req.apiKey # "expected"
     THEN /\ res' = [status |-> 401, body |-> ErrorBody(<<"Unauthorized">>)]
          /\ pc' = "done"
     ELSE /\ pc' = "proxy_validate"
          /\ UNCHANGED res
  /\ UNCHANGED <<handler, API_SECRET_KEY, req, origin, result, jsonString, parsedResult, err, caughtBy,
                 calls, inflight>>

\* if (!storagePath || !authToken) return res.status(400)
ProxyValidate ==
  /\ pc = "proxy_validate"
  /\ IF req.storagePath = <<>> \/ req.authToken = "absent"
     THEN /\ res' = [status |-> 400, body |-> ErrorBody(<<"Missing storagePath or authToken">>)]
          /\ pc' = "done"
     ELSE /\ pc' = "proxy_log"
          /\ UNCHANGED res
  /\ UNCHANGED <<handler, API_SECRET_KEY, req, origin, result, jsonString, parsedResult, err, caughtBy,
                 calls, inflight>>

\* console.log(..., authToken.substring(0, 20) + '...'), before the try
\* block: a token that is not a string has no substring method, the
\* TypeError rejects the promise of the async handler and nothing answers
ProxyLogTokenPreview ==
  /\ pc = "proxy_log"
  /\ IF req.authToken = "not_string"
     THEN /\ err' = "TypeError"
          /\ pc' = "crashed"
     ELSE /\ pc' = IF ImageProxyHandler(handler) = "rest" THEN "proxy_rest_fetch"
                   ELSE "proxy_admin_init"
          /\ UNCHANGED err
  /\ UNCHANGED <<handler, API_SECRET_KEY, req, origin, result, jsonString, parsedResult, caughtBy, res,
                 calls, inflight>>

\* if (!admin.apps.length) return res.status(500)
ProxyCheckAdmin ==
  /\ pc = "proxy_admin_init"
  /\ \E initialized \in BOOLEAN :
       IF ~initialized
       THEN /\ res' = [status |-> 500, body |-> ErrorBody(<<"Firebase Admin not initialized">>)]
            /\ pc' = "done"
       ELSE /\ pc' = IF ImageProxyHandler(handler) = "verify" THEN "proxy_verify" ELSE "proxy_exists"
            /\ UNCHANGED res
  /\ UNCHANGED <<handler, API_SECRET_KEY, req, origin, result, jsonString, parsedResult, err, caughtBy,
                 calls, inflight>>

\* index.js 672-686: await admin.auth().verifyIdToken(authToken), the 403
\* of the path test, and catch (tokenError) with its 401
ProxyVerifyToken ==
  /\ pc = "proxy_verify"
  /\ calls' = Append(calls, Call("verifyIdToken", <<>>))
  /\ IF req.authToken # "valid"
     THEN /\ res' = [status |-> 401, body |-> ErrorBody(<<"Invalid auth token">>)]
          /\ pc' = "done"
     ELSE IF AccessDenied(req.storagePath, TokenUid)
     THEN /\ res' = [status |-> 403, body |-> ErrorBody(<<"Access denied to this file">>)]
          /\ pc' = "done"
     ELSE /\ pc' = "proxy_exists"
          /\ UNCHANGED res
  /\ UNCHANGED <<handler, API_SECRET_KEY, req, origin, result, jsonString, parsedResult, err, caughtBy,
                 inflight>>

\* a collaborator operation together with what it returned
CallReturning(op, arg, returned) == [op |-> op, arg |-> arg, returned |-> returned]

\* const [exists] = await file.exists(); if (!exists) return res.status(404)
ProxyFileExists ==
  /\ pc = "proxy_exists"
  /\ \E outcome \in {"exists", "missing", "storage_error"} :
       CASE outcome = "exists" ->
              /\ calls' = Append(calls, CallReturning("exists", req.storagePath, TRUE))
              /\ pc' = "proxy_metadata"
              /\ UNCHANGED <<res, err>>
         [] outcome = "missing" ->
              /\ calls' = Append(calls, CallReturning("exists", req.storagePath, FALSE))
              /\ res' = [status |-> 404, body |-> ErrorBody(<<"Image not found">>)]
              /\ pc' = "done"
              /\ UNCHANGED err
         [] OTHER ->
              /\ calls' = Append(calls, Call("exists", req.storagePath))
              /\ pc' = "proxy_catch"
              /\ err' = outcome
              /\ UNCHANGED res
  /\ UNCHANGED <<handler, API_SECRET_KEY, req, origin, result, jsonString, parsedResult, caughtBy, inflight>>

\* the metadata the storage service may hold for an object; contentType ''
\* stands for an object stored without one
Metadatas ==
  {[contentType |-> c, size |-> "1024"] : c \in {"image/png", ""}}

\* headers that ignore the metadata
HeadersFixed(metadata) ==
  [ContentType |-> "image/jpeg", ContentLength |-> "0", CacheControl |-> "public, max-age=3600"]

\* res.set('Content-Type', metadata.contentType || 'image/jpeg');
\* res.set('Content-Length', metadata.size); res.set('Cache-Control', ...)
HeadersFrom(metadata) ==
  [ContentType |-> IF metadata.contentType = "" THEN "image/jpeg" ELSE metadata.contentType,
   ContentLength |-> metadata.size,
   CacheControl |-> "public, max-age=3600"]

\* const [metadata] = await file.getMetadata(); then, without another
\* await, the three res.set(...) calls
ProxyGetMetadata ==
  /\ pc = "proxy_metadata"
  /\ \/ \E metadata \in Metadatas :
          /\ calls' = Append(calls, CallReturning("getMetadata", req.storagePath, metadata))
          /\ res' = [status |-> 0, body |-> <<>>, headers |-> HeadersFrom(metadata)]
          /\ pc' = "proxy_stream"
          /\ UNCHANGED err
     \/ /\ calls' = Append(calls, Call("getMetadata", req.storagePath))
        /\ pc' = "proxy_catch"
        /\ err' = "storage_error"
        /\ UNCHANGED res
  /\ UNCHANGED <<handler, API_SECRET_KEY, req, origin, result, jsonString, parsedResult, caughtBy, inflight>>

\* const stream = file.createReadStream(); stream.on('error', ...);
\* stream.pipe(res): the handler returns, the stream goes on
ProxyCreateStream ==
  /\ pc = "proxy_stream"
  /\ calls' = Append(calls, Call("createReadStream", req.storagePath))
  /\ pc' = "streaming"
  /\ UNCHANGED <<handler, API_SECRET_KEY, req, origin, result, jsonString, parsedResult, err, caughtBy, res,
                 inflight>>

\* image-proxy-new.js 27-61: await fetch(storageUrl, { Authorization: Bearer
\* authToken }) and the mapping of a status that is not OK; status 0 stands
\* for a fetch that throws.  The storage service answers by its rules.
ProxyRestFetch ==
  /\ pc = "proxy_rest_fetch"
  /\ calls' = Append(calls, Call("rest_download", req.storagePath))
  /\ \E status \in {0, 503} \cup
                   (IF RulesAllow(req.storagePath, req.authToken) THEN {200, 404}
                    ELSE IF req.authToken = "valid" THEN {403} ELSE {401, 403}) :
       CASE status = 0 ->
              pc' = "proxy_catch" /\ err' = "network_error" /\ UNCHANGED res
         [] status = 200 ->
              pc' = "streaming" /\ UNCHANGED <<res, err>>
         [] OTHER ->
              /\ err' = "storage_not_ok"
              /\ pc' = "done"
              /\ res' = [status |-> status,
                         body |-> CASE status = 401 -> ErrorBody(<<"Authentication failed">>)
                                    [] status = 403 -> ErrorBody(<<"Access denied to this file">>)
                                    [] status = 404 -> ErrorBody(<<"Image not found">>)
                                    [] OTHER -> ErrorBody(<<"Firebase Storage error: ">>
                                                          \o ErrorMessage("storage_not_ok"))]
  /\ UNCHANGED <<handler, API_SECRET_KEY, req, origin, result, jsonString, parsedResult, caughtBy, inflight>>

\* the first chunk piped into res: status 200 and the headers go out with it
StreamFirstChunk ==
  /\ pc = "streaming"
  /\ res' = [res EXCEPT !.status = 200, !.body = <<"image:">> \o req.storagePath]
  /\ pc' = "streaming_sent"
  /\ UNCHANGED <<handler, API_SECRET_KEY, req, origin, result, jsonString, parsedResult, err, caughtBy,
                 calls, inflight>>

\* the stream ends and pipe ends the response
StreamEnd ==
  /\ pc = "streaming_sent"
  /\ pc' = "done"
  /\ UNCHANGED <<handler, API_SECRET_KEY, req, origin, result, jsonString, parsedResult, err, caughtBy, res,
                 calls, inflight>>

\* the 'error' event of the stream.  index.js: if (!res.headersSent)
\* res.status(500).json(...); image-proxy-new.js has no listener for it.
\* Once the headers are out nothing more is written and nothing ends the
\* response.
StreamError ==
  /\ pc \in {"streaming", "streaming_sent"}
  /\ err' = "stream_error"
  /\ IF ImageProxyHandler(handler) # "rest" /\ ~HeadersSent(res)
     THEN /\ res' = [status |-> 500,
                     body |-> ErrorBody(<<"Stream error: ">> \o ErrorMessage("stream_error"))]
          /\ pc' = "done"
     ELSE /\ pc' = "stalled"
          /\ UNCHANGED res
  /\ UNCHANGED <<handler, API_SECRET_KEY, req, origin, result, jsonString, parsedResult, caughtBy,
                 calls, inflight>>

\* catch (error) { if (!res.headersSent) res.status(500).json(...) }
ProxyCatch ==
  /\ pc = "proxy_catch"
  /\ IF ~HeadersSent(res)
     THEN res' = [status |-> 500,
                  body |-> ErrorBody(<<"Failed to proxy image: ">> \o ErrorMessage(err))]
     ELSE UNCHANGED res
  /\ caughtBy' = "outer"
  /\ pc' = "done"
  /\ UNCHANGED <<handler, API_SECRET_KEY, req, origin, result, jsonString, parsedResult, err,
                 calls, inflight>>

(***************************************************************************)
(* POST /upload-image: the Admin SDK handler of index.js 333-389 (and of   *)
(* part_002) and the REST handler of upload-endpoint.js                    *)
(***************************************************************************)
UserIds == {<<"u1">>}
\* 'r1' and 'r1_x'
RecipeIds == {<<"r1">>, <<"r1", "_", "x">>}
\* 'a.jpg', 'a?b.jpg' and 'x_a.jpg'
FileNames == {<<"a.jpg">>, <<"a", "?", "b.jpg">>, <<"x", "_", "a.jpg">>}
\* values of Date.now()
Timestamps == {<<"1700000000000">>, <<"1700000000001">>}

BucketName == "chef-choice-60cc3.firebasestorage.app"

\* `recipes/${userId}/${recipeId || timestamp}_${fileName}`
UploadPathOf(userId, recipeId, timestamp, fileName) ==
  <<"recipes", SLASH>> \o userId \o <<SLASH>>
    \o (IF recipeId = <<>> THEN timestamp ELSE recipeId) \o <<"_">> \o fileName

\* encodeURIComponent and decodeURIComponent, symbol by symbol
EncodeSymbol(c) ==
  CASE c = SLASH -> "%2F"
    [] c = "?" -> "%3F"
    [] c = "#" -> "%23"
    [] OTHER -> c
DecodeSymbol(c) ==
  CASE c = "%2F" -> SLASH
    [] c = "%3F" -> "?"
    [] c = "%23" -> "#"
    [] OTHER -> c
encodeURIComponent(s) == [i \in 1..Len(s) |-> EncodeSymbol(s[i])]
decodeURIComponent(s) == [i \in 1..Len(s) |-> DecodeSymbol(s[i])]

\* `https://storage.googleapis.com/${bucket.name}/${uploadPath}`
AdminDownloadURL(uploadPath) ==
  <<"https://storage.googleapis.com/", BucketName, SLASH>> \o uploadPath

\* `https://firebasestorage.googleapis.com/v0/b/${bucketName}/o/${encodeURIComponent(name)}?alt=media`
RestDownloadURL(name) ==
  <<"https://firebasestorage.googleapis.com/v0/b/", BucketName, "/o/">>
    \o encodeURIComponent(name) \o <<"?", "alt=media">>

\* the body of res.json({ success: true, downloadURL, uploadPath })
UploadBody(downloadURL, uploadPath) ==
  JSONStringify(JObj(<<Member(<<"success">>, JBool(TRUE)),
                       Member(<<"downloadURL">>, JStr(downloadURL)),
                       Member(<<"uploadPath">>, JStr(uploadPath))>>))

\* a request arrives; '' stands for an absent fileName, userId or recipeId.
\* The handler reads no x-api-key header.
ReceiveUploadImage ==
  /\ pc = "idle"
  /\ handler \in {"index.js", "part_002", "upload-endpoint.js"}
  /\ \E k \in {"absent", "wrong", "expected"},
        d \in {"absent", "base64"},
        c \in {"absent", "image/jpeg"},
        f \in {<<>>} \cup FileNames,
        u \in {<<>>} \cup UserIds,
        r \in {<<>>} \cup RecipeIds :
       req' = [route |-> "/upload-image", apiKey |-> k, imageData |-> d, fileName |-> f,
               contentType |-> c, userId |-> u, recipeId |-> r]
  /\ pc' = "upload_validate"
  /\ UNCHANGED <<handler, API_SECRET_KEY, origin, result, jsonString, parsedResult, err, caughtBy, res,
                 calls, inflight>>

\* a test that leaves userId out
MissingUploadFieldButUserId(body) ==
  \/ body.imageData = "absent"
  \/ body.fileName = <<>>
  \/ body.contentType = "absent"

\* !imageData || !fileName || !contentType || !userId
MissingUploadField(body) ==
  \/ body.imageData = "absent"
  \/ body.fileName = <<>>
  \/ body.contentType = "absent"
  \/ body.userId = <<>>

\* if (!imageData || !fileName || !contentType || !userId) return res.status(400)
UploadValidate ==
  /\ pc = "upload_validate"
  /\ IF MissingUploadField(req)
     THEN /\ res' = [status |-> 400, body |-> ErrorBody(<<"Missing required fields">>)]
          /\ pc' = "done"
     ELSE /\ pc' = "upload_write"
          /\ UNCHANGED res
  /\ UNCHANGED <<handler, API_SECRET_KEY, req, origin, result, jsonString, parsedResult, err, caughtBy,
                 calls, inflight>>

\* const timestamp = Date.now(); const uploadPath = ...;
\* const file = bucket.file(uploadPath); await file.save(imageBuffer, ...)
UploadSave ==
  /\ pc = "upload_write"
  /\ handler # "upload-endpoint.js"
  /\ \E timestamp \in Timestamps, outcome \in {"ok", "storage_error"} :
       /\ calls' = Append(calls, Call("save", UploadPathOf(req.userId, req.recipeId,
                                                           timestamp, req.fileName)))
       /\ IF outcome = "ok"
          THEN pc' = "upload_make_public" /\ UNCHANGED err
          ELSE pc' = "upload_catch" /\ err' = outcome
  /\ UNCHANGED <<handler, API_SECRET_KEY, req, origin, result, jsonString, parsedResult, caughtBy, res,
                 inflight>>

\* file.makePublic() without the await: a failure is not seen by the handler
UploadMakePublicNotAwaited ==
  /\ pc = "upload_make_public"
  /\ calls' = Append(calls, Call("makePublic", calls[Len(calls)].arg))
  /\ \E outcome \in {"ok", "storage_error"} :
       IF outcome = "ok"
       THEN pc' = "upload_respond" /\ UNCHANGED err
       ELSE pc' = "upload_respond" /\ err' = outcome
  /\ UNCHANGED <<handler, API_SECRET_KEY, req, origin, result, jsonString, parsedResult, caughtBy, res,
                 inflight>>

\* await file.makePublic(), on the file that was saved
UploadMakePublic ==
  /\ pc = "upload_make_public"
  /\ calls' = Append(calls, Call("makePublic", calls[Len(calls)].arg))
  /\ \E outcome \in {"ok", "storage_error"} :
       IF outcome = "ok"
       THEN pc' = "upload_respond" /\ UNCHANGED err
       ELSE pc' = "upload_catch" /\ err' = outcome
  /\ UNCHANGED <<handler, API_SECRET_KEY, req, origin, result, jsonString, parsedResult, caughtBy, res,
                 inflight>>

\* const downloadURL = ...; res.json({ success: true, downloadURL, uploadPath })
UploadRespond ==
  /\ pc = "upload_respond"
  /\ LET uploadPath == calls[1].arg
     IN res' = [status |-> 200, body |-> UploadBody(AdminDownloadURL(uploadPath), uploadPath)]
  /\ pc' = "done"
  /\ UNCHANGED <<handler, API_SECRET_KEY, req, origin, result, jsonString, parsedResult, err, caughtBy,
                 calls, inflight>>

\* upload-endpoint.js 17-55: the POST to the storage REST API; status 0
\* stands for a fetch that throws.  With a status that is OK the service
\* reports the object it created, uploadResult.name, and the handler answers.
UploadRestPost ==
  /\ pc = "upload_write"
  /\ handler = "upload-endpoint.js"
  /\ \E timestamp \in Timestamps, status \in {0, 200, 403, 503} :
       LET uploadPath == UploadPathOf(req.userId, req.recipeId, timestamp, req.fileName)
           name == uploadPath
       IN /\ calls' = Append(calls, Call("rest_upload", uploadPath))
          /\ CASE status = 0 ->
                    pc' = "upload_catch" /\ err' = "network_error" /\ UNCHANGED res
               [] status = 200 ->
                    /\ res' = [status |-> 200, body |-> UploadBody(RestDownloadURL(name), name)]
                    /\ pc' = "done"
                    /\ UNCHANGED err
               [] OTHER ->
                    pc' = "upload_catch" /\ err' = "storage_not_ok" /\ UNCHANGED res
  /\ UNCHANGED <<handler, API_SECRET_KEY, req, origin, result, jsonString, parsedResult, caughtBy, inflight>>

\* catch (error) { res.status(500).json({ error: 'Failed to upload image: ' + error.message }) }
UploadCatch ==
  /\ pc = "upload_catch"
  /\ res' = [status |-> 500,
             body |-> ErrorBody(<<"Failed to upload image: ">>
                                \o (IF err = "storage_not_ok"
                                    THEN <<"Firebase upload failed: ">> ELSE <<>>)
                                \o ErrorMessage(err))]
  /\ caughtBy' = "outer"
  /\ pc' = "done"
  /\ UNCHANGED <<handler, API_SECRET_KEY, req, origin, result, jsonString, parsedResult, err,
                 calls, inflight>>

Next ==
  \/ Receive
  \/ CheckApiKey
  \/ ValidateRequest
  \/ FetchPage
  \/ AwaitCompletion
  \/ ExtractJson
  \/ ParseJson
  \/ ParseJsonLegacy
  \/ ValidateFields
  \/ InnerCatch
  \/ Respond
  \/ OuterCatch
  \/ ReceiveParseRecipe
  \/ RecipeCheckApiKey
  \/ ReceiveParseRecipeSimple
  \/ RecipeCheckApiKeySimple
  \/ RecipeValidate
  \/ RecipeAwaitCompletion
  \/ RecipeNormalize
  \/ RecipeRespondRaw
  \/ RecipeOuterCatch
  \/ ReceiveImageProxy
  \/ ProxyCheckApiKey
  \/ ProxyValidate
  \/ ProxyLogTokenPreview
  \/ ProxyCheckAdmin
  \/ ProxyVerifyToken
  \/ ProxyFileExists
  \/ ProxyGetMetadata
  \/ ProxyCreateStream
  \/ ProxyRestFetch
  \/ StreamFirstChunk
  \/ StreamEnd
  \/ StreamError
  \/ ProxyCatch
  \/ ReceiveUploadImage
  \/ UploadValidate
  \/ UploadSave
  \/ UploadMakePublic
  \/ UploadRespond
  \/ UploadRestPost
  \/ UploadCatch

Spec == Init /\ [][Next]_vars

(***************************************************************************)
(* Concurrent requests to /parse-url of index.js.  Node runs a handler     *)
(* until its next await; the code between two awaits is one step.  Each    *)
(* request has its own closure: url, response, completion, result,         *)
(* parsedResult and res are parameters or block-scoped locals of it.       *)
(***************************************************************************)
NumRequests == 2
Requests == 1..NumRequests

\* '{"title":"T","steps":"S"}', '{}', 'a', 'null', '[1,2]'
ConcurrentTexts ==
  {JSONStringify(v) : v \in SmallObjects}
  \cup {<<"a">>, <<"null">>, <<LBRACKET, "1", COMMA, "2", RBRACKET>>}

\* completion: what the completion service returned to this request's call;
\* failure: the collaborator call of this request that failed
IdleRequest ==
  [pc |-> "idle", completion |-> <<>>, failure |-> "none", result |-> <<>>,
   res |-> NoResponse]

\* one response object for every request
ResShared(r) == 1

\* the res parameter of the closure that handles request r
ResOf(r) == r

InitConcurrent ==
  /\ handler = "index.js"
  /\ API_SECRET_KEY = "secret"
  /\ pc = "idle"
  /\ req = NoRequest
  /\ origin = NoOrigin
  /\ result = <<>>
  /\ jsonString = <<>>
  /\ parsedResult = JUndefined
  /\ err = "none"
  /\ caughtBy = "none"
  /\ res = NoResponse
  /\ calls = <<>>
  /\ inflight = [r \in Requests |-> IdleRequest]

\* the variables of the specification of one request, left alone here
oneRequest ==
  <<handler, API_SECRET_KEY, pc, req, origin, result, jsonString, parsedResult, err, caughtBy, res, calls>>

\* a valid request arrives and runs up to await fetch(url)
ConcurrentReceive(r) ==
  /\ inflight[r].pc = "idle"
  /\ UNCHANGED oneRequest
  /\ inflight' = [inflight EXCEPT ![r].pc = "fetch"]

\* await fetch(url) returns (and !response.ok throws) or fails
ConcurrentFetch(r) ==
  /\ inflight[r].pc = "fetch"
  /\ UNCHANGED oneRequest
  /\ \E outcome \in {"ok", "not_ok", "network_error"} :
       inflight' = IF outcome = "ok"
                   THEN [inflight EXCEPT ![r].pc = "text"]
                   ELSE [inflight EXCEPT ![r].pc = "catch", ![r].failure = outcome]

\* await response.text() returns; the handler runs up to the completion call
ConcurrentReadText(r) ==
  /\ inflight[r].pc = "text"
  /\ UNCHANGED oneRequest
  /\ inflight' = [inflight EXCEPT ![r].pc = "completion"]

\* the completion service answers the call of request r, or fails
ConcurrentCompletion(r) ==
  /\ inflight[r].pc = "completion"
  /\ UNCHANGED oneRequest
  /\ \/ \E text \in ConcurrentTexts :
          inflight' = [inflight EXCEPT ![r].pc = "resume", ![r].completion = text]
     \/ inflight' = [inflight EXCEPT ![r].pc = "catch", ![r].failure = "completion_error"]

\* the handler resumes after await openai...create(): const result, the
\* normalization and res.json(parsedResult), without another await
ConcurrentNormalize(r) ==
  /\ inflight[r].pc = "resume"
  /\ UNCHANGED oneRequest
  /\ LET text == inflight[r].completion
     IN inflight' = [inflight EXCEPT
                       ![r].result = text,
                       ![r].pc = "done",
                       ![ResOf(r)].res = [status |-> 200,
                                          body |-> JSONStringify(normalize(text))]]

\* catch (err) { res.status(500).json(...) }
ConcurrentCatch(r) ==
  /\ inflight[r].pc = "catch"
  /\ UNCHANGED oneRequest
  /\ inflight' = [inflight EXCEPT
                    ![r].pc = "done",
                    ![ResOf(r)].res =
                      [status |-> 500,
                       body |-> ErrorBody(<<"Failed to fetch or parse recipe from URL: ">>
                                          \o ErrorMessage(inflight[r].failure))]]

NextConcurrent ==
  \E r \in Requests :
    \/ ConcurrentReceive(r)
    \/ ConcurrentFetch(r)
    \/ ConcurrentReadText(r)
    \/ ConcurrentCompletion(r)
    \/ ConcurrentNormalize(r)
    \/ ConcurrentCatch(r)

SpecConcurrent == InitConcurrent /\ [][NextConcurrent]_vars

(***************************************************************************)
(* Properties of the normalization                                         *)
(***************************************************************************)
Fields == {title, ingredientsByProcessingStep, steps, tags}

\* the /parse-url handler of index.js has answered a request whose
\* completion arrived
Normalized ==
  /\ handler = "index.js"
  /\ req.route = "/parse-url"
  /\ pc = "done"
  /\ origin.kind # "none"

\* the record the caller receives: the decoded response body
Returned == JSONParse(res.body).val

IsObject(v) == v.type = "obj"

\* the default the data model gives to field k for completion text raw
DefaultOf(k, raw) ==
  IF k = title THEN JStr(ImportedRecipe)
  ELSE IF k = steps THEN JStr(raw)
  ELSE JArr(<<>>)

AbsentNullOrEmpty(v, k) ==
  \/ v.type \in {"undefined", "null"}
  \/ k \in {title, steps} /\ v = JStr(<<>>)

C2_AllFieldsPresent ==
  (req.route = "/parse-url" /\ pc = "done" /\ res.status = 200) =>
    LET record == Returned
    IN /\ IsObject(record)
       /\ \A k \in Fields : GetProp(record, k).type \notin {"undefined", "null"}

\* C3: with no '{...}' in the completion text, or with an extracted
\* substring that is not valid JSON, the fallback record is returned.
C3_FallbackWhenNoJson ==
  (Normalized /\ (~jsonMatch(result).found \/ ~JSONParse(jsonString).ok)) =>
    Returned = FallbackRecord(result)

\* C4: when the extracted substring parses as an object, every field that is
\* absent or null, and title or steps when empty, has its default in the
\* returned record; the default of steps is the whole completion text.
C4_BackfillDefaults ==
  Normalized =>
    LET parsed == JSONParse(jsonString)
        record == Returned
    IN (parsed.ok /\ IsObject(parsed.val)) =>
         /\ IsObject(record)
         /\ \A k \in Fields :
              AbsentNullOrEmpty(GetProp(parsed.val, k), k) =>
                GetProp(record, k) = DefaultOf(k, result)

\* '{"title":"","steps":"S"}'
C4_Witness ==
  /\ Normalized
  /\ result = JSONStringify(JObj(<<Member(title, JStr(<<>>)), Member(steps, JStr(<<"S">>))>>))
  /\ Returned = JObj(<<Member(title, JStr(ImportedRecipe)),
                       Member(steps, JStr(<<"S">>)),
                       Member(ingredientsByProcessingStep, JArr(<<>>)),
                       Member(tags, JArr(<<>>))>>)

\* C5: an object between two runs of prose without braces is extracted and
\* parsed: the answer is not the fallback record, a field the object gives
\* is returned as given and a field it lacks has its default.
C5_EmbeddedObjectExtracted ==
  (Normalized /\ origin.kind = "embedded") =>
    /\ caughtBy = "none"
    /\ err = "none"
    /\ jsonString = JSONStringify(origin.val)
    /\ LET record == Returned
       IN /\ IsObject(record)
          /\ \A k \in Fields :
               LET given == GetProp(origin.val, k)
               IN IF AbsentNullOrEmpty(given, k)
                  THEN GetProp(record, k) = DefaultOf(k, result)
                  ELSE given # JNum(0) => GetProp(record, k) = given

\* prose, '{"title":"T","steps":"S"}', prose
C5_Witness ==
  /\ Normalized
  /\ origin.kind = "embedded"
  /\ origin.pre # <<>>
  /\ origin.post # <<>>
  /\ origin.val = JObj(<<Member(title, JStr(<<"T">>)), Member(steps, JStr(<<"S">>))>>)
  /\ Returned = JObj(<<Member(title, JStr(<<"T">>)),
                       Member(steps, JStr(<<"S">>)),
                       Member(ingredientsByProcessingStep, JArr(<<>>)),
                       Member(tags, JArr(<<>>))>>)

\* a record with exactly the four fields: non-empty strings and two sequences
IsRecipeRecord(v) ==
  /\ IsObject(v)
  /\ Len(v.members) = 4
  /\ \A k \in Fields : HasKey(v.members, k)
  /\ GetProp(v, title).type = "str" /\ GetProp(v, title).s # <<>>
  /\ GetProp(v, steps).type = "str" /\ GetProp(v, steps).s # <<>>
  /\ GetProp(v, ingredientsByProcessingStep).type = "arr"
  /\ GetProp(v, tags).type = "arr"

\* C6: for a record R with a non-empty title, non-empty steps and two
\* sequences, the normalization of JSON.stringify(R) returns R itself:
\* same members, same values, same order.
C6_JsonRoundTrip ==
  (Normalized /\ origin.kind = "embedded" /\ origin.pre = <<>> /\ origin.post = <<>>
     /\ IsRecipeRecord(origin.val)) =>
    /\ result = JSONStringify(origin.val)
    /\ Returned = origin.val
    /\ parsedResult = origin.val

\* the record of the round-trip example
C6_Witness ==
  /\ Normalized
  /\ origin.kind = "embedded"
  /\ origin.pre = <<>>
  /\ origin.post = <<>>
  /\ origin.val = JObj(<<Member(title, JStr(<<"T">>)),
                         Member(ingredientsByProcessingStep, JArr(<<Group>>)),
                         Member(steps, JStr(<<"S">>)),
                         Member(tags, JArr(<<JStr(<<"x">>)>>))>>)
  /\ Returned = origin.val

\* C7: normalizing the JSON text of a returned record returns the same
\* record again (both compared as sent by res.json).
C7_Idempotent ==
  Normalized => JSONStringify(normalize(res.body)) = res.body

\* C8: the steps field of the returned record is never empty.
C8_StepsNeverEmpty ==
  Normalized => ~AbsentNullOrEmpty(GetProp(Returned, steps), steps)

\* C9: the title of the returned record is a non-empty string.
C9_TitleNonEmptyString ==
  Normalized => LET returnedTitle == GetProp(Returned, title)
                IN returnedTitle.type = "str" /\ returnedTitle.s # <<>>

\* C10: with two objects in the completion text (no brace before the first),
\* the text handed to JSON.parse runs from the first '{' to the last '}',
\* it fails to parse, and the fallback record with the whole text as steps
\* is returned, not the first object.
C10_TwoObjectsFallBack ==
  (Normalized /\ origin.kind = "two") =>
    /\ jsonString = JSONStringify(origin.val) \o origin.mid \o JSONStringify(origin.val2)
    /\ err = "SyntaxError"
    /\ caughtBy = "inner"
    /\ Returned = FallbackRecord(result)

\* two objects with text between them
C10_Witness ==
  /\ Normalized
  /\ origin.kind = "two"
  /\ origin.mid # <<>>
  /\ origin.val = JObj(<<Member(title, JStr(<<"T">>)), Member(steps, JStr(<<"S">>))>>)
  /\ origin.val2 = JObj(<<>>)
  /\ GetProp(Returned, steps) = JStr(result)

\* a field the parsed object gives with a value that is not null, not '' and not 0
PresentNonEmpty(v) ==
  /\ v.type \notin {"undefined", "null"}
  /\ v # JStr(<<>>)
  /\ v # JNum(0)

MaxDirs == 2

RECURSIVE JoinPath(_)
\* the segments joined with '/'
JoinPath(segments) ==
  IF Len(segments) = 1 THEN <<segments[1]>>
  ELSE <<segments[1], SLASH>> \o JoinPath(Tail(segments))

\* object paths: up to MaxDirs directories and a file name
RulesPaths ==
  {JoinPath(dirs \o <<file>>) :
     dirs \in SeqsUpTo({"recipes", "public", "u1"}, MaxDirs), file \in {"a.jpg", "b.jpg"}}

InitRules ==
  /\ handler = "storage.rules"
  /\ API_SECRET_KEY = "secret"
  /\ pc = "rules_request"
  /\ \E method \in {"read", "write"}, path \in RulesPaths,
        authToken \in {"absent", "invalid", "valid"} :
       req = [route |-> "storage", method |-> method, path |-> path, authToken |-> authToken]
  /\ origin = NoOrigin
  /\ result = <<>>
  /\ jsonString = <<>>
  /\ parsedResult = JUndefined
  /\ err = "none"
  /\ caughtBy = "none"
  /\ res = NoResponse
  /\ calls = <<>>
  /\ inflight = <<>>

\* the service evaluates the rules for the request and allows or denies it
EvaluateRules ==
  /\ pc = "rules_request"
  /\ res' = [status |-> IF RulesDecision(req.method, req.path, req.authToken) THEN 200 ELSE 403,
             body |-> <<>>]
  /\ pc' = "done"
  /\ UNCHANGED <<handler, API_SECRET_KEY, req, origin, result, jsonString, parsedResult, err,
                 caughtBy, calls, inflight>>

NextRules == EvaluateRules

SpecRules == InitRules /\ [][NextRules]_vars

(***************************************************************************)
(* Properties of the endpoints                                             *)
(***************************************************************************)
\* C12: a request whose x-api-key header is missing or wrong is answered
\* 401 and nothing else: no other status, and no collaborator is called.
C12_UnauthorizedBeforeAnything ==
  (/\ req.route # "none"
   /\ IF handler = "index-simple.js"
      THEN req.apiKey # API_SECRET_KEY
      ELSE req.apiKey # "expected") =>
    /\ calls = <<>>
    /\ res.status \in {0, 401}
    /\ pc = "done" => res.status = 401

\* the request has a missing or invalid field
InvalidField ==
  \/ req.route = "/parse-recipe" /\ TextRefused(handler, req)
  \/ req.route = "/parse-url" /\ req.url \in {"absent", "not_string", "malformed"}
  \/ req.route = "/image-proxy" /\ (req.storagePath = <<>> \/ req.authToken = "absent")
  \/ req.route = "/upload-image"
       /\ \/ req.imageData = "absent"
          \/ req.fileName = <<>>
          \/ req.contentType = "absent"
          \/ req.userId = <<>>

\* C13: a request with a missing or invalid field never gets past the
\* checks of its handler: no collaborator is called for it, the handler
\* does not fail, and the answer is a 4xx status.
C13_InvalidRequestRejected ==
  InvalidField =>
    /\ calls = <<>>
    /\ pc \in {"auth", "validate_request", "recipe_auth", "recipe_auth_simple",
               "recipe_validate", "proxy_auth", "proxy_validate", "upload_validate", "done"}
    /\ pc = "done" => res.status \in 400..499

\* an upload without userId, a proxy request without authToken, a text over
\* the limit: answered 400, nothing called
C13_Witness ==
  /\ pc = "done"
  /\ res.status = 400
  /\ calls = <<>>
  /\ \/ req.route = "/upload-image" /\ req.userId = <<>> /\ req.fileName # <<>>
          /\ req.imageData # "absent" /\ req.contentType # "absent"
     \/ req.route = "/image-proxy" /\ req.authToken = "absent" /\ req.storagePath # <<>>
     \/ req.route = "/parse-recipe" /\ req.text = "string" /\ req.length > TextLimit(handler)

StorageOps == {"exists", "getMetadata", "createReadStream", "rest_download"}

\* C14: for an /image-proxy request with an invalid token (the x-api-key
\* and the storagePath being in order) no storage operation is performed,
\* no image is served, and the answer is 401 or 403.
C14_InvalidTokenRejected ==
  (req.route = "/image-proxy" /\ req.apiKey = "expected" /\ req.storagePath # <<>>
     /\ req.authToken = "invalid") =>
    /\ \A i \in 1..Len(calls) : calls[i].op \notin StorageOps
    /\ res.status # 200
    /\ pc = "done" => res.status \in {401, 403}

CollaboratorErrors ==
  {"not_ok", "network_error", "completion_error", "storage_error", "storage_not_ok",
   "stream_error"}

\* C15: a request that ended after a collaborator call failed has a 5xx
\* answer whose body holds the message of the failure, and no operation
\* was called twice.
C15_FailureSurfaced ==
  (pc = "done" /\ err \in CollaboratorErrors) =>
    /\ res.status \in 500..599
    /\ Includes(res.body, ErrorMessage(err))
    /\ \A i, j \in 1..Len(calls) : i # j => calls[i] # calls[j]

\* C16: /parse-recipe of index.js answers 200 for every completion text,
\* and its result field, decoded, is the record /parse-url returns for the
\* same text.
C16_SameNormalization ==
  (handler = "index.js" /\ req.route = "/parse-recipe" /\ pc = "done"
     /\ origin.kind # "none") =>
    /\ res.status = 200
    /\ LET carried == GetProp(Returned, <<"result">>)
           decoded == JSONParse(carried.s)
       IN /\ carried.type = "str"
          /\ decoded.ok
          /\ decoded.val = JSONParse(JSONStringify(normalize(result))).val


\* C17: under every interleaving, a request that has ended has the answer
\* its own collaborator results give: 200 with the normalization of the
\* completion returned to its own call, or 500 with its own failure.
C17_OwnCompletionOnly ==
  \A r \in DOMAIN inflight :
    inflight[r].pc = "done" =>
      inflight[r].res =
        IF inflight[r].failure = "none"
        THEN [status |-> 200, body |-> JSONStringify(normalize(inflight[r].completion))]
        ELSE [status |-> 500,
              body |-> ErrorBody(<<"Failed to fetch or parse recipe from URL: ">>
                                 \o ErrorMessage(inflight[r].failure))]

\* request 2 was answered while request 1, received with another completion
\* text, is still waiting to resume
C17_Witness ==
  /\ DOMAIN inflight # {}
  /\ inflight[1].pc = "resume"
  /\ inflight[2].pc = "done"
  /\ inflight[2].res.status = 200
  /\ inflight[1].completion = <<"a">>
  /\ inflight[2].completion = JSONStringify(JObj(<<>>))


\* C18: a handler that has stopped (returned, failed, or been left by its
\* stream) has sent a response.
C18_EveryRequestAnswered ==
  pc \in {"done", "crashed", "stalled"} => res.status # 0

\* C19: once a status has been written the response is never written
\* again, by no error path; and a collaborator operation is invoked at most
\* once for a request (the log of calls only grows, by operations not yet
\* in it).
C19_AtMostOneResponse ==
  [][/\ res.status # 0 => res' = res
     /\ calls' # calls =>
          /\ Len(calls') = Len(calls) + 1
          /\ SubSeq(calls', 1, Len(calls)) = calls
          /\ \A i \in 1..Len(calls) : calls[i].op # calls'[Len(calls')].op]_vars

\* the stream of index.js failed after the first chunk: the 200 stands
C19_Witness ==
  /\ handler \in {"index.js", "index.js:400"}
  /\ pc = "stalled"
  /\ err = "stream_error"
  /\ res.status = 200
  /\ Len(calls) >= 3

\* the object a download URL addresses: the path of the URL ends at the
\* first '?' or '#', and what follows the bucket is decoded
ObjectAddressedBy(url) ==
  LET stops == {i \in 1..Len(url) : url[i] \in {"?", "#"}}
      last == IF stops = {} THEN Len(url)
              ELSE (CHOOSE i \in stops : \A j \in stops : i <= j) - 1
  IN decodeURIComponent(SubSeq(url, 4, last))

\* C20: a 200 answer of /upload-image is { success: true, downloadURL,
\* uploadPath } where uploadPath is the path given to the storage write, of
\* the form recipes/<userId>/<recipeId or timestamp>_<fileName>, and
\* downloadURL addresses the object at that path.
C20_UploadResponse ==
  (req.route = "/upload-image" /\ pc = "done" /\ res.status = 200) =>
    LET answer == Returned
        written == calls[1].arg
    IN /\ IsObject(answer)
       /\ Len(answer.members) = 3
       /\ GetProp(answer, <<"success">>) = JBool(TRUE)
       /\ GetProp(answer, <<"uploadPath">>) = JStr(written)
       /\ \E timestamp \in Timestamps :
            written = UploadPathOf(req.userId, req.recipeId, timestamp, req.fileName)
       /\ GetProp(answer, <<"downloadURL">>).type = "str"
       /\ ObjectAddressedBy(GetProp(answer, <<"downloadURL">>).s) = written

\* the path lies in the directory of a user other than the one of the token
InOtherUsersDirectory(path) ==
  /\ Len(path) >= 4
  /\ SubSeq(path, 1, 2) = <<"recipes", SLASH>>
  /\ <<path[3]>> # TokenUid
  /\ path[4] = SLASH

\* C21: in the token-verifying /image-proxy handler, a request with a valid
\* token for uid U and a path that starts with recipes/V/, V other than U,
\* causes no storage call and is served nothing; once the token has been
\* verified it is answered 403.
C21_NoOtherUsersObject ==
  (handler = "index.js:400" /\ req.route = "/image-proxy" /\ req.authToken = "valid"
     /\ InOtherUsersDirectory(req.storagePath)) =>
    /\ \A i \in 1..Len(calls) : calls[i].op \notin StorageOps
    /\ res.status # 200
    /\ (pc = "done" /\ calls # <<>>) => res.status = 403

\* the storage operations of the request so far, in the order they were made
StorageOpsMade ==
  [i \in 1..Len(calls) |-> calls[i].op]

\* the request is handled by one of the Admin-SDK /image-proxy handlers
AdminImageProxy ==
  handler \in {"index.js", "index.js:400"} /\ req.route = "/image-proxy"

\* C22: in the Admin-SDK /image-proxy handler the storage operations are made
\* in the order exists, getMetadata, createReadStream; when exists reports
\* that the object is missing the response is 404 and neither getMetadata nor
\* createReadStream is made; and the Content-Type and Content-Length headers
\* are set from the metadata before the read stream is created and before any
\* byte is streamed (an error response of a stream that failed before its
\* first byte replaces them).
C22_StorageOrder ==
  AdminImageProxy =>
    LET ops == SelectSeq(StorageOpsMade, LAMBDA op : op \in StorageOps)
        order == <<"exists", "getMetadata", "createReadStream">>
    IN  /\ Len(ops) <= 3
        /\ ops = SubSeq(order, 1, Len(ops))
        /\ \A i \in 1..Len(calls) :
             (calls[i].op = "exists" /\ "returned" \in DOMAIN calls[i] /\ ~calls[i].returned) =>
               /\ i = Len(calls)
               /\ pc = "done"
               /\ res.status = 404
        /\ res.status = 404 => ops = <<"exists">>
        /\ res.status = 200 => ops = order
        /\ (ops = order /\ res.status \in {0, 200}) =>
             \E i \in 1..Len(calls) :
               /\ calls[i].op = "getMetadata"
               /\ "returned" \in DOMAIN calls[i]
               /\ "headers" \in DOMAIN res
               /\ res.headers.ContentType =
                    (IF calls[i].returned.contentType = "" THEN "image/jpeg"
                     ELSE calls[i].returned.contentType)
               /\ res.headers.ContentLength = calls[i].returned.size

\* an image with a stored content type was streamed to the end
C22_Witness ==
  /\ AdminImageProxy
  /\ pc = "done"
  /\ res.status = 200
  /\ res.body # <<>>
  /\ res.headers.ContentType = "image/png"
  /\ calls[Len(calls)].op = "createReadStream"

\* the request is handled by one of the Admin-SDK /upload-image handlers
AdminUpload ==
  handler \in {"index.js", "part_002"} /\ req.route = "/upload-image"

\* C23: the Admin-SDK /upload-image handler answers success only after the
\* write and then the make-public of the same object have both completed, in
\* that order; when either of them fails the response is 500 and no success
\* response is sent.
C23_SuccessAfterWriteAndPublic ==
  AdminUpload =>
    /\ res.status = 200 =>
         /\ Len(calls) = 2
         /\ calls[1].op = "save"
         /\ calls[2].op = "makePublic"
         /\ calls[2].arg = calls[1].arg
         /\ err = "none"
         /\ pc = "done"
    /\ err # "none" =>
         /\ res.status \in {0, 500}
         /\ pc \in {"upload_catch", "done"}
         /\ pc = "done" => res.status = 500
         /\ calls[Len(calls)].op \in {"save", "makePublic"}
    /\ \A i \in 1..Len(calls) : calls[i].op = "makePublic" => i = 2 /\ calls[1].op = "save"

\* a success response was sent after the write and the make-public
C23_Witness ==
  /\ AdminUpload
  /\ pc = "done"
  /\ res.status = 200
  /\ Len(calls) = 2
  /\ calls[1].op = "save"
  /\ calls[2].op = "makePublic"

\* the (userId, recipeId, fileName) triples a request can carry
UploadTriples ==
  {<<u, r, f>> : u \in UserIds, r \in {<<>>} \cup RecipeIds, f \in FileNames}

\* C24: the path an /upload-image request writes to is the path of no request
\* with another (userId, recipeId, fileName) triple, whatever the time of that
\* other request.
C24_UploadPathInjective ==
  (req.route = "/upload-image" /\ calls # <<>>) =>
    \A t \in UploadTriples, timestamp \in Timestamps :
      t # <<req.userId, req.recipeId, req.fileName>> =>
        UploadPathOf(t[1], t[2], timestamp, t[3]) # calls[1].arg

\* the request went past the key test of index-simple.js
PastKeyTestSimple ==
  /\ pc # "recipe_auth_simple"
  /\ ~(pc = "done" /\ res.status = 401)

\* C25: in index-simple.js a /parse-recipe request goes past the key test
\* only when API_SECRET_KEY is configured and the x-api-key header equals it;
\* when the secret is unset or empty every request, one without the header
\* included, is answered 401 and nothing else happens.
C25_NoSecretNoAccess ==
  (handler = "index-simple.js" /\ req.route = "/parse-recipe") =>
    /\ PastKeyTestSimple =>
         /\ API_SECRET_KEY \notin {"undefined", ""}
         /\ req.apiKey = API_SECRET_KEY
    /\ (API_SECRET_KEY \in {"undefined", ""} /\ pc # "recipe_auth_simple") =>
         /\ pc = "done"
         /\ res.status = 401
         /\ calls = <<>>
    /\ res.status = 401 => calls = <<>>

\* a request without the header was refused while no secret is set
C25_Witness ==
  /\ handler = "index-simple.js"
  /\ req.route = "/parse-recipe"
  /\ API_SECRET_KEY = "undefined"
  /\ req.apiKey = "undefined"
  /\ pc = "done"
  /\ res.status = 401

\* the completion service was called for the request
CompletionCalled ==
  \E i \in 1..Len(calls) : calls[i].op = "completion"

\* C26: in /parse-recipe of index.js an authorized request with a text of more
\* than 15000 characters is answered 400 and the completion service is not
\* called; a text of 1 to 15000 characters passes the validation and is sent
\* to the completion service.
C26_TextLimit ==
  (handler = "index.js" /\ req.route = "/parse-recipe" /\ req.apiKey = "expected"
     /\ req.text = "string" /\ pc \notin {"recipe_auth", "recipe_validate"}) =>
    /\ req.length > 15000 =>
         /\ pc = "done"
         /\ res.status = 400
         /\ ~CompletionCalled
    /\ (req.length >= 1 /\ req.length <= 15000) =>
         /\ res.status # 400
         /\ pc = "recipe_completion" \/ CompletionCalled

\* a text of exactly 15000 characters was sent to the completion service
C26_Witness ==
  /\ handler = "index.js"
  /\ req.route = "/parse-recipe"
  /\ req.text = "string"
  /\ req.length = 15000
  /\ CompletionCalled
  /\ pc = "done"
  /\ res.status = 200

\* C27: in the server that registers POST /image-proxy twice (index.js 638
\* and 762) every request is handled by the first handler only: the REST
\* handler never runs, and the first handler ends every request it handles.
C27_FirstHandlerOnly ==
  (Len(ImageProxyRegistrations(handler)) > 1 /\ req.route = "/image-proxy") =>
    /\ pc # "proxy_rest_fetch"
    /\ \A i \in 1..Len(calls) : calls[i].op # "rest_download"
    /\ pc \notin {"crashed", "stalled"}

\* the REST handler of the server that registers two handlers never runs
LaterHandlerNeverRuns ==
  (Len(ImageProxyRegistrations(handler)) > 1 /\ req.route = "/image-proxy") =>
    /\ pc # "proxy_rest_fetch"
    /\ \A i \in 1..Len(calls) : calls[i].op # "rest_download"

\* the object path lies under recipes/
UnderRecipes(path) ==
  Len(path) > 2 /\ path[1] = "recipes" /\ path[2] = SLASH

\* C28: under the storage rules a read or a write is allowed exactly when
\* the request is authenticated and the object path lies under recipes/;
\* every unauthenticated request and every request for a path outside
\* recipes/ is denied.
C28_RulesDecision ==
  (req.route = "storage" /\ pc = "done") =>
    /\ res.status \in {200, 403}
    /\ res.status = 200 <=> (req.authToken = "valid" /\ UnderRecipes(req.path))
    /\ req.authToken # "valid" => res.status = 403
    /\ ~UnderRecipes(req.path) => res.status = 403

\* an authenticated write under recipes/ was allowed
C28_Witness ==
  /\ req.route = "storage"
  /\ pc = "done"
  /\ req.method = "write"
  /\ req.authToken = "valid"
  /\ UnderRecipes(req.path)
  /\ res.status = 200

====
